---- MODULE Spec2Model ----
(***************************************************************************)
(* MovieFlix Analytics: the warehouse load script (etl/load_dw.sql), the   *)
(* mart views (etl/marts.sql) and the Express API (app/server.js).         *)
(*                                                                         *)
(* The SQL scripts are executed statement by statement, every statement    *)
(* in its own transaction (the scripts contain no BEGIN/COMMIT).  A        *)
(* statement is atomic: COPY loads all rows of its file or none.           *)
(*                                                                         *)
(* Numbers with a decimal part are integers here: a rating in a CSV file   *)
(* or a request body is counted in hundredths (7.25 is 725), a rating      *)
(* stored in a numeric(3,1) column in tenths (7.3 is 73).  A mean is the   *)
(* pair <<sum, count>> of the ratings it averages, compared as a fraction. *)
(* Columns no statement of the repository reads back (year, imdb_id,       *)
(* created_at of the warehouse; year, genre, created_at of the application *)
(* tables, which the handlers treat as they treat title) are left out of   *)
(* the rows.                                                               *)
(***************************************************************************)
EXTENDS Integers, Sequences, FiniteSets, TLC

VARIABLES
  csv,        \* the three input files: readable or not, and their rows
  relations,  \* names of the tables and views that exist in the database
  dw,         \* rows of dw.movies, dw.users, dw.ratings, in heap order
  run,        \* per ETL run: next statement, whether a statement failed
  outcome,    \* per ETL run: how its last execution on the current files ended
  overlap,    \* history: some run started while another was active
  before,     \* history: warehouse rows when the latest run started
  snap,       \* history: warehouse rows after the first clean run on these files
  resp,       \* last response of an insight endpoint
  app_movies,   \* rows of app_movies
  app_ratings,  \* rows of app_ratings
  movie_seq,    \* last value of the sequence behind app_movies.id
  rating_seq,   \* last value of the sequence behind app_ratings.id
  inflight,     \* POST /ratings requests between their two queries
  last          \* the request handled by the latest handler step, its answer

etlVars == <<csv, relations, dw, run, outcome, overlap, before, snap, resp>>

appVars == <<app_movies, app_ratings, movie_seq, rating_seq, inflight, last>>

vars == <<csv, relations, dw, run, outcome, overlap, before, snap, resp,
          app_movies, app_ratings, movie_seq, rating_seq, inflight, last>>

-----------------------------------------------------------------------------
(* Bounds of the model *)

MaxRows == 2
MaxRuns == 2
MaxMartRows == 3
MaxTopMovies == 12
MaxMovies == 2
MaxRatings == 2
MaxInflight == 1

-----------------------------------------------------------------------------
(* Values *)

Null == "NULL"
\* An input file that is absent or cannot be read
Missing == [readable |-> FALSE, rows |-> <<>>]

File(rows) == [readable |-> TRUE, rows |-> rows]

NoSnap == [dw |-> <<>>, n |-> 0]

NoResp == [view |-> "none", status |-> "none", rows |-> <<>>]
Error == "error"
None == "none"

Tables == {"movies", "users", "ratings"}
Views == {"top10_by_genre", "avg_rating_by_age", "ratings_by_country"}
Runs == {1, 2}

SeqsUpTo(S, n) == UNION {[1..k -> S] : k \in 0..n}

Range(s) == {s[i] : i \in DOMAIN s}

Abs(x) == IF x < 0 THEN -x ELSE x

\* Input conversion to numeric(3,1), three digits with one after the point: a
\* value in hundredths is rounded to tenths, half away from zero.
RoundToScale(h) ==
  LET q == (Abs(h) + 5) \div 10
  IN IF h < 0 THEN -q ELSE q

\* A rounded value with more than three digits raises "numeric field overflow".
NumericFits(h) == Abs(RoundToScale(h)) < 1000

-----------------------------------------------------------------------------
(* etl/load_dw.sql followed by etl/marts.sql, one statement per entry *)

Script ==
  << [op |-> "create_table", rel |-> "movies"],
     [op |-> "create_table", rel |-> "users"],
     [op |-> "create_table", rel |-> "ratings"],
     [op |-> "truncate", rel |-> "movies"],
     [op |-> "truncate", rel |-> "users"],
     [op |-> "truncate", rel |-> "ratings"],
     [op |-> "copy", rel |-> "movies"],
     [op |-> "copy", rel |-> "users"],
     [op |-> "copy", rel |-> "ratings"],
     [op |-> "create_view", rel |-> "top10_by_genre"],
     [op |-> "create_view", rel |-> "avg_rating_by_age"],
     [op |-> "create_view", rel |-> "ratings_by_country"] >>

Idle == [pc |-> 0, failed |-> FALSE]

Active(r) == run[r].pc # 0

Stmt(r) == Script[run[r].pc]

At(r, op) == Active(r) /\ Stmt(r).op = op

\* The row COPY stores for a CSV row of the given table.
CopyRow(t, row) ==
  IF t = "ratings"
  THEN [user_id |-> row.user_id, movie_id |-> row.movie_id,
        rating |-> RoundToScale(row.rating)]
  ELSE row

CopyRows(t, file) == [i \in DOMAIN file |-> CopyRow(t, file[i])]

\* "id int primary key" of dw.movies and dw.users; dw.ratings has no key.
KeyOk(t, rows) ==
  t \in {"movies", "users"} =>
    \A i, j \in DOMAIN rows : rows[i].id = rows[j].id => i = j

\* COPY succeeds when the file is readable, every value converts to its
\* column type and the table with the new rows keeps its primary key.
CanCopy(t) ==
  /\ csv[t].readable
  /\ t = "ratings" =>
       \A i \in DOMAIN csv[t].rows : NumericFits(csv[t].rows[i].rating)
  /\ KeyOk(t, dw[t] \o CopyRows(t, csv[t].rows))

\* After a statement: on to the next one, or the run is over.
Advance(r, failed) ==
  IF run[r].pc = Len(Script)
  THEN /\ run' = [run EXCEPT ![r] = Idle]
       /\ outcome' = [outcome EXCEPT ![r] = IF failed THEN "errors" ELSE "ok"]
  ELSE /\ run' = [run EXCEPT ![r] = [pc |-> run[r].pc + 1, failed |-> failed]]
       /\ UNCHANGED outcome

\* History of the runs on the current files: the warehouse rows after the
\* first run that ended without a failed statement, and the number of runs
\* that have ended since, that one included.
SnapAfter(ends, failed) ==
  IF ~ends THEN snap
  ELSE IF snap.n > 0 THEN [dw |-> snap.dw, n |-> snap.n + 1]
  ELSE IF ~failed /\ ~overlap THEN [dw |-> dw, n |-> 1]
  ELSE snap

StartRun(r) ==
  /\ ~Active(r)
  /\ snap.n < MaxRuns
  /\ run' = [run EXCEPT ![r] = [pc |-> 1, failed |-> FALSE]]
  /\ outcome' = [outcome EXCEPT ![r] = "running"]
  /\ overlap' = (overlap \/ \E q \in Runs \ {r} : Active(q))
  /\ before' = dw
  /\ UNCHANGED <<csv, relations, dw, snap, resp>>
  /\ UNCHANGED appVars

CreateTable(r) ==
  /\ At(r, "create_table")
  /\ relations' = relations \cup {Stmt(r).rel}
  /\ Advance(r, run[r].failed)
  /\ UNCHANGED <<csv, dw, overlap, before, snap, resp>>
  /\ UNCHANGED appVars

\* Mutant: the truncate statement leaves the rows in place.
TruncateKeepsRows(r) ==
  /\ At(r, "truncate")
  /\ Advance(r, run[r].failed)
  /\ UNCHANGED <<csv, relations, dw, overlap, before, snap, resp>>
  /\ UNCHANGED appVars

Truncate(r) ==
  /\ At(r, "truncate")
  /\ dw' = [dw EXCEPT ![Stmt(r).rel] = <<>>]
  /\ Advance(r, run[r].failed)
  /\ UNCHANGED <<csv, relations, overlap, before, snap, resp>>
  /\ UNCHANGED appVars

\* Mutant: COPY takes the first data row for a second header line.
CopyLoadSkipsRow(r) ==
  /\ At(r, "copy")
  /\ CanCopy(Stmt(r).rel)
  /\ dw' = [dw EXCEPT ![Stmt(r).rel] =
              @ \o CopyRows(Stmt(r).rel,
                            IF csv[Stmt(r).rel].rows = <<>> THEN <<>>
                            ELSE Tail(csv[Stmt(r).rel].rows))]
  /\ Advance(r, run[r].failed)
  /\ UNCHANGED <<csv, relations, overlap, before, snap, resp>>
  /\ UNCHANGED appVars

CopyLoad(r) ==
  /\ At(r, "copy")
  /\ CanCopy(Stmt(r).rel)
  /\ dw' = [dw EXCEPT ![Stmt(r).rel] = @ \o CopyRows(Stmt(r).rel, csv[Stmt(r).rel].rows)]
  /\ Advance(r, run[r].failed)
  /\ UNCHANGED <<csv, relations, overlap, before, snap, resp>>
  /\ UNCHANGED appVars

\* The failed COPY changes nothing; the client goes on with the next
\* statement.
CopyFailContinue(r) ==
  /\ At(r, "copy")
  /\ ~CanCopy(Stmt(r).rel)
  /\ Advance(r, TRUE)
  /\ UNCHANGED <<csv, relations, dw, overlap, before, snap, resp>>
  /\ UNCHANGED appVars

\* The failed COPY changes nothing; the client stops at the first error.
CopyFailStop(r) ==
  /\ At(r, "copy")
  /\ ~CanCopy(Stmt(r).rel)
  /\ run' = [run EXCEPT ![r] = Idle]
  /\ outcome' = [outcome EXCEPT ![r] = "aborted"]
  /\ snap' = SnapAfter(TRUE, TRUE)
  /\ UNCHANGED <<csv, relations, dw, overlap, before, resp>>
  /\ UNCHANGED appVars

CreateView(r) ==
  /\ At(r, "create_view")
  /\ relations' = relations \cup {Stmt(r).rel}
  /\ snap' = SnapAfter(run[r].pc = Len(Script), run[r].failed)
  /\ Advance(r, run[r].failed)
  /\ UNCHANGED <<csv, dw, overlap, before, resp>>
  /\ UNCHANGED appVars

\* The upstream feed rewrites or removes one input file between runs.
FeedReplace(t, file) ==
  /\ \A r \in Runs : ~Active(r)
  /\ file # csv[t]
  /\ csv' = [csv EXCEPT ![t] = file]
  /\ snap' = NoSnap
  /\ outcome' = [r \in Runs |-> None]
  /\ UNCHANGED <<relations, dw, run, overlap, before, resp>>
  /\ UNCHANGED appVars

-----------------------------------------------------------------------------
(* etl/marts.sql: the three views, evaluated on the warehouse rows d *)

\* Collation of the text values that the views sort by.
Collation == <<"Action", "Drama", "SciFi">>

TextRank(s) == CHOOSE i \in DOMAIN Collation : Collation[i] = s

\* A mean <<sum, count>> as a fraction.
MeanLess(a, b) == a[1] * b[2] < b[1] * a[2]

\* dw.movies m join dw.ratings r on r.movie_id = m.id, as index pairs
JoinMovies(d) ==
  {p \in (DOMAIN d.movies) \X (DOMAIN d.ratings) :
     d.ratings[p[2]].movie_id = d.movies[p[1]].id}

\* Mutant: every user with every rating, the join condition lost.
JoinUsersCross(d) == (DOMAIN d.users) \X (DOMAIN d.ratings)

\* dw.users u join dw.ratings r on r.user_id = u.id, as index pairs
JoinUsers(d) ==
  {p \in (DOMAIN d.users) \X (DOMAIN d.ratings) :
     d.ratings[p[2]].user_id = d.users[p[1]].id}

RECURSIVE SumRating(_, _)
SumRating(d, P) ==
  IF P = {} THEN 0
  ELSE LET p == CHOOSE q \in P : TRUE
       IN d.ratings[p[2]].rating + SumRating(d, P \ {p})

\* select genre, title, avg(r.rating), count(*) ... group by genre, title
Top10Groups(d) ==
  LET J == JoinMovies(d)
      Key(p) == <<d.movies[p[1]].genre, d.movies[p[1]].title>>
      Group(k) == {p \in J : Key(p) = k}
  IN {[genre |-> k[1], title |-> k[2],
       avg_rating |-> <<SumRating(d, Group(k)), Cardinality(Group(k))>>,
       n_ratings |-> Cardinality(Group(k))] : k \in {Key(p) : p \in J}}

\* select u.age_range, avg(r.rating), count(*) ... group by u.age_range
AgeGroups(d) ==
  LET J == JoinUsers(d)
      Key(p) == d.users[p[1]].age_range
      Group(k) == {p \in J : Key(p) = k}
  IN {[age_range |-> k,
       avg_rating |-> <<SumRating(d, Group(k)), Cardinality(Group(k))>>,
       n_ratings |-> Cardinality(Group(k))] : k \in {Key(p) : p \in J}}

\* select u.country, count(*) ... group by u.country
CountryGroups(d) ==
  LET J == JoinUsers(d)
      Key(p) == d.users[p[1]].country
      Group(k) == {p \in J : Key(p) = k}
  IN {[country |-> k, n_ratings |-> Cardinality(Group(k))] :
        k \in {Key(p) : p \in J}}

ViewGroups(v, d) ==
  CASE v = "top10_by_genre" -> Top10Groups(d)
    [] v = "avg_rating_by_age" -> AgeGroups(d)
    [] v = "ratings_by_country" -> CountryGroups(d)

\* Mutant: the means sorted ascending.
OrderBeforeAscending(v, a, b) ==
  CASE v = "top10_by_genre" ->
         \/ TextRank(a.genre) < TextRank(b.genre)
         \/ a.genre = b.genre /\ MeanLess(a.avg_rating, b.avg_rating)
    [] v = "avg_rating_by_age" -> MeanLess(a.avg_rating, b.avg_rating)
    [] v = "ratings_by_country" -> b.n_ratings < a.n_ratings

\* The ORDER BY clause of each view: a sorts strictly before b.
OrderBefore(v, a, b) ==
  CASE v = "top10_by_genre" ->
         \/ TextRank(a.genre) < TextRank(b.genre)
         \/ a.genre = b.genre /\ MeanLess(b.avg_rating, a.avg_rating)
    [] v = "avg_rating_by_age" -> MeanLess(b.avg_rating, a.avg_rating)
    [] v = "ratings_by_country" -> b.n_ratings < a.n_ratings

\* Every order the sort may produce: rows that ORDER BY does not tell apart
\* come out in any order.
RECURSIVE Sorted(_, _)
Sorted(v, S) ==
  IF S = {} THEN {<<>>}
  ELSE UNION {{<<x>> \o t : t \in Sorted(v, S \ {x})} :
                x \in {y \in S : \A z \in S : ~OrderBefore(v, z, y)}}

\* limit 10 of mart.top10_by_genre
Top10Limit == 10

\* Mutant: ten rows for each genre.
LimitPerGenre(v, s) ==
  IF v = "top10_by_genre"
  THEN SelectSeq(s, LAMBDA row :
         Cardinality({i \in DOMAIN s : s[i].genre = row.genre
                        /\ \E j \in DOMAIN s : j >= i /\ s[j] = row}) <= Top10Limit)
  ELSE s

Limit(v, s) ==
  IF v = "top10_by_genre" /\ Len(s) > Top10Limit
  THEN SubSeq(s, 1, Top10Limit)
  ELSE s

ViewResults(v, d) == {Limit(v, s) : s \in Sorted(v, ViewGroups(v, d))}

-----------------------------------------------------------------------------
(* app/server.js: GET /api/insights/top10, avg-by-age, by-country *)

\* The query names a view that does not exist: pool.query rejects, the
\* handler has no catch and sends no JSON.
\* Mutant: the failed query answered with the empty array.
ReadInsightNoViewEmpty(v) ==
  /\ v \notin relations
  /\ resp' = [view |-> v, status |-> "ok", rows |-> <<>>]
  /\ UNCHANGED <<csv, relations, dw, run, outcome, overlap, before, snap>>
  /\ UNCHANGED appVars

ReadInsightNoView(v) ==
  /\ v \notin relations
  /\ resp' = [view |-> v, status |-> Error, rows |-> <<>>]
  /\ UNCHANGED <<csv, relations, dw, run, outcome, overlap, before, snap>>
  /\ UNCHANGED appVars

ReadInsight(v) ==
  /\ v \in relations
  /\ \E rows \in ViewResults(v, dw) :
       resp' = [view |-> v, status |-> "ok", rows |-> rows]
  /\ UNCHANGED <<csv, relations, dw, run, outcome, overlap, before, snap>>
  /\ UNCHANGED appVars

-----------------------------------------------------------------------------
(* app/server.js: the CRUD handlers.  A handler that awaits one query is one *)
(* step; POST /ratings awaits two and is two steps.  A query that fails      *)
(* rejects the handler's promise: nothing catches it and no response is      *)
(* sent (status "none", the SQLSTATE in error).                              *)

\* A number in a request: left out, not a number, or an integer.
Absent == [kind |-> "absent", val |-> 0]
Text == [kind |-> "text", val |-> 0]
Num(i) == [kind |-> "int", val |-> i]

\* JavaScript's !x for a text field and for a number field
BlankText(x) == x = Null \/ x = ""

Falsy(x) == x = Absent \/ x = Num(0)

Req(id, title, rating) == [id |-> id, title |-> title, rating |-> rating]

NoReq == Req(Absent, Null, Absent)

Answer(route, req, status, error) ==
  [route |-> route, req |-> req, status |-> status, error |-> error]

HasMovie(i) == \E m \in app_movies : m.id = i

\* check (rating >= 0 and rating <= 10) of app_ratings
RatingCheck(v) == v >= 0 /\ v <= 100

\* POST /movies
PostMovies(title) ==
  /\ inflight' = inflight
  /\ \/ /\ BlankText(title)
        /\ last' = Answer("POST /movies", Req(Absent, title, Absent), "400", None)
        /\ UNCHANGED <<app_movies, app_ratings, movie_seq, rating_seq>>
     \/ /\ ~BlankText(title)
        /\ movie_seq < MaxMovies
        /\ movie_seq' = movie_seq + 1
        /\ app_movies' = app_movies \cup {[id |-> movie_seq + 1, title |-> title]}
        /\ last' = Answer("POST /movies", Req(Absent, title, Absent), "201", None)
        /\ UNCHANGED <<app_ratings, rating_seq>>
  /\ UNCHANGED etlVars

\* PUT /movies/:id
PutMovie(id, title) ==
  /\ UNCHANGED <<app_ratings, movie_seq, rating_seq, inflight>>
  /\ \/ /\ id.kind = "text"
        /\ last' = Answer("PUT /movies", Req(id, Null, Absent), "none", "22P02")
        /\ UNCHANGED app_movies
     \/ /\ id.kind = "int"
        /\ ~HasMovie(id.val)
        /\ last' = Answer("PUT /movies", Req(id, Null, Absent), "404", None)
        /\ UNCHANGED app_movies
     \/ /\ id.kind = "int"
        /\ HasMovie(id.val)
        /\ app_movies' =
             {IF m.id = id.val
              THEN [m EXCEPT !.title = IF title = Null THEN @ ELSE title]
              ELSE m : m \in app_movies}
        /\ last' = Answer("PUT /movies", Req(id, Null, Absent), "200", None)
  /\ UNCHANGED etlVars

\* Mutant: the rows of app_ratings that reference the movie stay.
DeleteMovieNoCascade(id) ==
  /\ id.kind = "int"
  /\ HasMovie(id.val)
  /\ app_movies' = {m \in app_movies : m.id # id.val}
  /\ last' = Answer("DELETE /movies", Req(id, Null, Absent), "204", None)
  /\ UNCHANGED <<app_ratings, movie_seq, rating_seq, inflight>>
  /\ UNCHANGED etlVars

\* DELETE /movies/:id; "on delete cascade" removes the movie's ratings.
DeleteMovie(id) ==
  /\ UNCHANGED <<movie_seq, rating_seq, inflight>>
  /\ \/ /\ id.kind = "text"
        /\ last' = Answer("DELETE /movies", Req(id, Null, Absent), "none", "22P02")
        /\ UNCHANGED <<app_movies, app_ratings>>
     \/ /\ id.kind = "int"
        /\ ~HasMovie(id.val)
        /\ last' = Answer("DELETE /movies", Req(id, Null, Absent), "404", None)
        /\ UNCHANGED <<app_movies, app_ratings>>
     \/ /\ id.kind = "int"
        /\ HasMovie(id.val)
        /\ app_movies' = {m \in app_movies : m.id # id.val}
        /\ app_ratings' = {r \in app_ratings : r.movie_id # id.val}
        /\ last' = Answer("DELETE /movies", Req(id, Null, Absent), "204", None)
  /\ UNCHANGED etlVars

\* Mutant: the handler inserts without looking the movie up.
PostRatingsNoLookup(movie_id, rating) ==
  /\ UNCHANGED <<app_movies, app_ratings, movie_seq, rating_seq>>
  /\ \/ /\ Falsy(movie_id) \/ rating = Absent
        /\ last' = Answer("POST /ratings", Req(movie_id, Null, rating), "400", None)
        /\ UNCHANGED inflight
     \/ /\ ~Falsy(movie_id) /\ rating # Absent
        /\ movie_id.kind = "int"
        /\ Cardinality(inflight \cup {[movie_id |-> movie_id.val, rating |-> rating.val]})
             <= MaxInflight
        /\ inflight' = inflight \cup {[movie_id |-> movie_id.val, rating |-> rating.val]}
        /\ last' = Answer("POST /ratings", Req(movie_id, Null, rating), "pending", None)
  /\ UNCHANGED etlVars

\* POST /ratings, up to the answer of "select 1 from app_movies where id=$1"
PostRatings(movie_id, rating) ==
  /\ UNCHANGED <<app_movies, app_ratings, movie_seq, rating_seq>>
  /\ \/ /\ Falsy(movie_id) \/ rating = Absent
        /\ last' = Answer("POST /ratings", Req(movie_id, Null, rating), "400", None)
        /\ UNCHANGED inflight
     \/ /\ ~Falsy(movie_id) /\ rating # Absent
        /\ movie_id.kind = "text"
        /\ last' = Answer("POST /ratings", Req(movie_id, Null, rating), "none", "22P02")
        /\ UNCHANGED inflight
     \/ /\ ~Falsy(movie_id) /\ rating # Absent
        /\ movie_id.kind = "int"
        /\ ~HasMovie(movie_id.val)
        /\ last' = Answer("POST /ratings", Req(movie_id, Null, rating), "404", None)
        /\ UNCHANGED inflight
     \/ /\ ~Falsy(movie_id) /\ rating # Absent
        /\ movie_id.kind = "int"
        /\ HasMovie(movie_id.val)
        /\ Cardinality(inflight \cup {[movie_id |-> movie_id.val, rating |-> rating.val]})
             <= MaxInflight
        /\ inflight' = inflight \cup {[movie_id |-> movie_id.val, rating |-> rating.val]}
        /\ last' = Answer("POST /ratings", Req(movie_id, Null, rating), "pending", None)
  /\ UNCHANGED etlVars

\* POST /ratings, the insert: the value is rounded to numeric(3,1), the row
\* takes the next id, then the check and the foreign key are enforced.
PostRatingsInsert(q) ==
  /\ q \in inflight
  /\ inflight' = inflight \ {q}
  /\ UNCHANGED <<app_movies, movie_seq>>
  /\ LET req == Req(Num(q.movie_id), Null, Num(q.rating))
         v == RoundToScale(q.rating)
     IN /\ rating_seq < MaxRatings
        /\ rating_seq' = rating_seq + 1
        /\ \/ /\ ~(NumericFits(q.rating) /\ RatingCheck(v))
              /\ last' = Answer("POST /ratings", req, "none",
                                IF NumericFits(q.rating) THEN "23514" ELSE "22003")
              /\ UNCHANGED app_ratings
           \/ /\ NumericFits(q.rating) /\ RatingCheck(v)
              /\ ~HasMovie(q.movie_id)
              /\ last' = Answer("POST /ratings", req, "none", "23503")
              /\ UNCHANGED app_ratings
           \/ /\ NumericFits(q.rating) /\ RatingCheck(v)
              /\ HasMovie(q.movie_id)
              /\ app_ratings' = app_ratings \cup
                   {[id |-> rating_seq + 1, movie_id |-> q.movie_id, rating |-> v]}
              /\ last' = Answer("POST /ratings", req, "201", None)
  /\ UNCHANGED etlVars

-----------------------------------------------------------------------------
(* Specifications *)

\* bootstrap() has created the two tables, empty.
InitApp ==
  /\ app_movies = {}
  /\ app_ratings = {}
  /\ movie_seq = 0
  /\ rating_seq = 0
  /\ inflight = {}
  /\ last = Answer(None, NoReq, "none", None)

InitDb ==
  /\ InitApp
  /\ relations = {}
  /\ dw = [t \in Tables |-> <<>>]
  /\ run = [r \in Runs |-> Idle]
  /\ outcome = [r \in Runs |-> None]
  /\ overlap = FALSE
  /\ before = [t \in Tables |-> <<>>]
  /\ snap = NoSnap
  /\ resp = NoResp

Files(rows, n) == {Missing} \cup {File(s) : s \in SeqsUpTo(rows, n)}

RunStep(r) ==
  \/ StartRun(r)
  \/ CreateTable(r)
  \/ Truncate(r)
  \/ CopyLoad(r)
  \/ CopyFailContinue(r)
  \/ CopyFailStop(r)
  \/ CreateView(r)

\* Load: one run at a time, the feed rewrites the files between runs.
\* The files of movies and users: absent, empty, one row, the same id twice.
LoadMovie == [id |-> 1, title |-> "A", genre |-> "Drama"]
LoadUser == [id |-> 1, age_range |-> "18-25", country |-> "BR"]
LoadRatings == {[user_id |-> 1, movie_id |-> 1, rating |-> x] : x \in {725, 1100}}

LoadFiles(t) ==
  CASE t = "movies" ->
         {Missing, File(<<>>), File(<<LoadMovie>>), File(<<LoadMovie, LoadMovie>>)}
    [] t = "users" -> {Missing, File(<<LoadUser>>)}
    [] t = "ratings" -> Files(LoadRatings, MaxRows)

InitLoad ==
  /\ csv \in [Tables -> UNION {LoadFiles(t) : t \in Tables}]
  /\ \A t \in Tables : csv[t] \in LoadFiles(t)
  /\ InitDb

NextLoad ==
  \/ RunStep(1)
  \/ \E t \in Tables : \E file \in LoadFiles(t) : FeedReplace(t, file)

SpecLoad == InitLoad /\ [][NextLoad]_vars

\* Conc: two runs of the scripts on the same readable files, started at any
\* time, and a client of the insight endpoints.
ConcFiles(t) ==
  CASE t = "movies" -> {File(<<>>), File(<<LoadMovie>>)}
    [] t = "users" -> {File(<<LoadUser>>)}
    [] t = "ratings" -> {File(<<>>)} \cup {File(<<x>>) : x \in LoadRatings}

InitConc ==
  /\ csv \in [Tables -> UNION {ConcFiles(t) : t \in Tables}]
  /\ \A t \in Tables : csv[t] \in ConcFiles(t)
  /\ InitDb

NextConc ==
  \/ \E r \in Runs : RunStep(r)
  \/ \E v \in Views : ReadInsightNoView(v)
  \/ \E v \in Views : ReadInsight(v)

SpecConc == InitConc /\ [][NextConc]_vars

\* Mart: one run at a time on files whose rows fall into several genres, age
\* brackets and countries, and a client of the three insight endpoints.
MartMovies ==
  {Missing,
   File(<<[id |-> 1, title |-> "A", genre |-> "Drama"],
          [id |-> 2, title |-> "B", genre |-> "Action"]>>),
   File(<<[id |-> 1, title |-> "A", genre |-> "Drama"],
          [id |-> 2, title |-> "A", genre |-> "Drama"]>>)}

MartUsers ==
  {File(<<[id |-> 1, age_range |-> "18-25", country |-> "BR"],
          [id |-> 2, age_range |-> "18-25", country |-> "US"],
          [id |-> 3, age_range |-> "26-35", country |-> "BR"]>>),
   File(<<[id |-> 1, age_range |-> "18-25", country |-> "BR"],
          [id |-> 2, age_range |-> "26-35", country |-> "BR"]>>)}

\* User 9 and movie 9 are in no file.
MartRatings ==
  {[user_id |-> 1, movie_id |-> 1, rating |-> 800],
   [user_id |-> 2, movie_id |-> 2, rating |-> 600],
   [user_id |-> 3, movie_id |-> 1, rating |-> 1000],
   [user_id |-> 9, movie_id |-> 9, rating |-> 800]}

MartFiles(t) ==
  CASE t = "movies" -> MartMovies
    [] t = "users" -> MartUsers
    [] t = "ratings" -> {File(s) : s \in SeqsUpTo(MartRatings, MaxMartRows)}

InitMart ==
  /\ csv \in [Tables -> UNION {MartFiles(t) : t \in Tables}]
  /\ \A t \in Tables : csv[t] \in MartFiles(t)
  /\ InitDb

NextMart ==
  \/ RunStep(1)
  \/ \E v \in Views : ReadInsightNoView(v)
  \/ \E v \in Views : ReadInsight(v)

SpecMart == InitMart /\ [][NextMart]_vars

\* Top: one run at a time on a catalogue of up to MaxTopMovies movies in three
\* genres, one rating for each movie, and a client of the top10 endpoint.
Titles ==
  <<"T01", "T02", "T03", "T04", "T05", "T06", "T07", "T08", "T09", "T10",
    "T11", "T12", "T13", "T14">>

TopMovie(i) ==
  [id |-> i, title |-> Titles[i], genre |-> Collation[((i - 1) % Len(Collation)) + 1]]

\* A second copy, under another id, of the first movie's title and genre
TopTwin(n) == [id |-> n + 1, title |-> Titles[1], genre |-> Collation[1]]

\* The rating of movie i: all different within a genre (1), the first and the
\* fourth of each genre equal (2), the second and the third of the last genre
\* equal (3)
TopRating(p, i) ==
  CASE p = 1 -> 1000 - 10 * i
    [] p = 2 -> 600 + 100 * (((i - 1) \div 3) % 3)
    [] p = 3 -> IF i % 3 = 0 THEN 900 - 100 * ((i \div 3) \div 2) ELSE 1000 - 10 * i

TopRatingRows(p, k) ==
  [i \in 1..k |-> [user_id |-> 1, movie_id |-> i, rating |-> TopRating(p, i)]]

InitTop ==
  /\ \E n \in 0..MaxTopMovies : \E twin \in BOOLEAN : \E p \in 1..3 :
       csv = [movies |-> File([i \in 1..n |-> TopMovie(i)]
                              \o IF twin THEN <<TopTwin(n)>> ELSE <<>>),
              users |-> File(<<LoadUser>>),
              ratings |-> File(TopRatingRows(p, IF twin THEN n + 1 ELSE n))]
  /\ InitDb

NextTop ==
  \/ StartRun(1)
  \/ CreateTable(1)
  \/ Truncate(1)
  \/ CopyLoad(1)
  \/ CreateView(1)
  \/ ReadInsightNoView("top10_by_genre")
  \/ ReadInsight("top10_by_genre")

SpecTop == InitTop /\ [][NextTop]_vars

\* Crud: clients of the CRUD endpoints; no ETL run.
PostTitles == {Null, "", "A"}
PutTitles == {Null, "B"}
UrlIds == {Text} \cup {Num(i) : i \in 1..MaxMovies}
BodyIds == {Absent, Num(0)} \cup UrlIds
BodyRatings == {Absent, Num(1004), Num(1005)}

InitCrud ==
  /\ csv = [t \in Tables |-> Missing]
  /\ InitDb

NextCrud ==
  \/ \E title \in PostTitles : PostMovies(title)
  \/ \E id \in UrlIds : \E title \in PutTitles : PutMovie(id, title)
  \/ \E id \in UrlIds : DeleteMovie(id)
  \/ \E movie_id \in BodyIds : \E rating \in BodyRatings : PostRatings(movie_id, rating)
  \/ \E q \in inflight : PostRatingsInsert(q)

SpecCrud == InitCrud /\ [][NextCrud]_vars

-----------------------------------------------------------------------------
(* Claims on the warehouse load, under SpecLoad *)

AllIdle == \A r \in Runs : ~Active(r)

\* C1: with the input files unchanged, every run after a run that succeeded
\* also succeeds and leaves dw.movies, dw.users and dw.ratings with the rows
\* the first run left.
C1_LoadIdempotent ==
  (AllIdle /\ snap.n >= 2) => (dw = snap.dw /\ outcome[1] = "ok")

C1_Witness ==
  /\ AllIdle
  /\ snap.n >= 2
  /\ dw["movies"] # <<>>
  /\ dw["users"] # <<>>
  /\ Len(dw["ratings"]) >= 2

\* C2: every row of dw.ratings has a rating between 0 and 10.
C2_RatingInRange ==
  \A i \in DOMAIN dw["ratings"] :
    0 <= dw["ratings"][i].rating /\ dw["ratings"][i].rating <= 100

\* C8: a run that fails because an input file is missing or unreadable
\* leaves the three warehouse tables with the rows they held when it started.
C8_MissingFileTouchesNothing ==
  (/\ AllIdle
   /\ outcome[1] \in {"errors", "aborted"}
   /\ \E t \in Tables : ~csv[t].readable)
  => dw = before

-----------------------------------------------------------------------------
(* Claims on overlapping runs, under SpecConc *)

\* The rows of the input files, as the column types store them.
MatchesFiles(d) ==
  \A t \in Tables :
    /\ Len(d[t]) = Len(csv[t].rows)
    /\ \A i \in DOMAIN d[t] : d[t][i] = CopyRow(t, csv[t].rows[i])

FullLoad == [t \in Tables |-> CopyRows(t, csv[t].rows)]

\* C9: when no run has started while another was active, the warehouse holds
\* exactly the rows of the input files after every run that has ended.  (That
\* overlapping runs break this is the witness.)
C9_RunsOneAtATimeMatchFiles ==
  (AllIdle /\ ~overlap /\ \E r \in Runs : outcome[r] # None)
  => (MatchesFiles(dw) /\ \A r \in Runs : outcome[r] \in {None, "ok"})

\* Two overlapping runs have ended, dw.ratings holds every rating row of the
\* file twice, and a client has read a view of the half-loaded warehouse: no
\* rows, where the loaded warehouse gives some.
C9_Witness ==
  /\ AllIdle
  /\ overlap
  /\ csv["ratings"].rows # <<>>
  /\ dw["ratings"] = FullLoad["ratings"] \o FullLoad["ratings"]
  /\ resp.status = "ok"
  /\ resp.rows = <<>>
  /\ <<>> \notin ViewResults(resp.view, FullLoad)

-----------------------------------------------------------------------------
(* Claims on the mart views, under SpecMart and SpecTop *)

\* This step is a read of view v that returned rows.
Returned(v) == resp' # resp /\ resp'.view = v /\ resp'.status = "ok"

RECURSIVE SumOfRatings(_)
SumOfRatings(s) == IF s = <<>> THEN 0 ELSE Head(s).rating + SumOfRatings(Tail(s))

Min(a, b) == IF a < b THEN a ELSE b

\* The rating rows of the movies with genre and title k
RatingsOfTitle(k) ==
  SelectSeq(dw["ratings"],
            LAMBDA r : \E m \in Range(dw["movies"]) :
                         m.id = r.movie_id /\ <<m.genre, m.title>> = k)

\* The rating rows of the users in age bracket b
RatingsOfBracket(b) ==
  SelectSeq(dw["ratings"],
            LAMBDA r : \E u \in Range(dw["users"]) :
                         u.id = r.user_id /\ u.age_range = b)

RatedTitles ==
  {<<m.genre, m.title>> :
     m \in {x \in Range(dw["movies"]) :
              \E r \in Range(dw["ratings"]) : r.movie_id = x.id}}

RatedBrackets ==
  {u.age_range :
     u \in {x \in Range(dw["users"]) :
              \E r \in Range(dw["ratings"]) : r.user_id = x.id}}

RatedCountries ==
  {u.country :
     u \in {x \in Range(dw["users"]) :
              \E r \in Range(dw["ratings"]) : r.user_id = x.id}}

\* Genre ascending, then mean rating descending: a comes strictly first.
GenreThenMean(ga, suma, na, gb, sumb, nb) ==
  \/ TextRank(ga) < TextRank(gb)
  \/ ga = gb /\ suma * nb > sumb * na

Top10RowsRight(rows) ==
  /\ Len(rows) <= 10
  /\ Len(rows) = Min(10, Cardinality(RatedTitles))
  /\ \A i \in DOMAIN rows :
       LET rs == RatingsOfTitle(<<rows[i].genre, rows[i].title>>)
       IN /\ <<rows[i].genre, rows[i].title>> \in RatedTitles
          /\ rows[i].n_ratings = Len(rs)
          /\ rows[i].avg_rating[1] * Len(rs) = SumOfRatings(rs) * rows[i].avg_rating[2]
          /\ rows[i].avg_rating[2] > 0
  /\ \A i, j \in DOMAIN rows :
       i < j =>
         /\ <<rows[i].genre, rows[i].title>> # <<rows[j].genre, rows[j].title>>
         /\ ~GenreThenMean(rows[j].genre, rows[j].avg_rating[1], rows[j].avg_rating[2],
                           rows[i].genre, rows[i].avg_rating[1], rows[i].avg_rating[2])
  /\ \A k \in RatedTitles \ {<<rows[i].genre, rows[i].title>> : i \in DOMAIN rows} :
       \A i \in DOMAIN rows :
         ~GenreThenMean(k[1], SumOfRatings(RatingsOfTitle(k)), Len(RatingsOfTitle(k)),
                        rows[i].genre, rows[i].avg_rating[1], rows[i].avg_rating[2])

RowIsRated(v, row) ==
  CASE v = "top10_by_genre" -> <<row.genre, row.title>> \in RatedTitles
    [] v = "avg_rating_by_age" -> row.age_range \in RatedBrackets
    [] v = "ratings_by_country" -> row.country \in RatedCountries

\* C4: a row of a mart view stands for a genre, age bracket or country that
\* some rating row joins to, and counts at least one rating; after a run that
\* succeeded on an empty ratings.csv the three views return no rows, and no
\* error.
C4_OnlyRatedGroups ==
  [][(resp' # resp /\ resp'.view \in Views) =>
       /\ \A i \in DOMAIN resp'.rows :
            /\ RowIsRated(resp'.view, resp'.rows[i])
            /\ resp'.rows[i].n_ratings >= 1
       /\ (outcome[1] = "ok" /\ csv["ratings"] = File(<<>>)) =>
            (resp'.status = "ok" /\ resp'.rows = <<>>)]_vars

C4_Witness ==
  /\ outcome[1] = "ok"
  /\ csv["ratings"] = File(<<>>)
  /\ Len(dw["movies"]) = 2
  /\ Len(dw["users"]) = 3
  /\ resp = [view |-> "ratings_by_country", status |-> "ok", rows |-> <<>>]

AgeRowsRight(rows) ==
  /\ {rows[i].age_range : i \in DOMAIN rows} = RatedBrackets
  /\ Len(rows) = Cardinality(RatedBrackets)
  /\ \A i \in DOMAIN rows :
       LET rs == RatingsOfBracket(rows[i].age_range)
       IN /\ rows[i].n_ratings = Len(rs)
          /\ rows[i].avg_rating[1] * Len(rs) = SumOfRatings(rs) * rows[i].avg_rating[2]
          /\ rows[i].avg_rating[2] > 0
  /\ \A i, j \in DOMAIN rows :
       i < j => rows[i].avg_rating[1] * rows[j].avg_rating[2]
                  >= rows[j].avg_rating[1] * rows[i].avg_rating[2]

\* C5: a read of mart.avg_rating_by_age returns exactly one row per age
\* bracket with a rating by one of its users, with the mean and the number of
\* those ratings, ordered by mean descending.
C5_AvgByAge ==
  [][Returned("avg_rating_by_age") => AgeRowsRight(resp'.rows)]_vars

\* Ratings 8 and 6 in "18-25" and 10 in "26-35".
C5_Witness ==
  /\ AllIdle
  /\ Len(dw["ratings"]) = 3
  /\ resp = [view |-> "avg_rating_by_age", status |-> "ok",
             rows |-> <<[age_range |-> "26-35", avg_rating |-> <<100, 1>>,
                         n_ratings |-> 1],
                        [age_range |-> "18-25", avg_rating |-> <<140, 2>>,
                         n_ratings |-> 2]>>]

NeverRan == \A r \in Runs : outcome[r] = None

\* C7 as stated: a read of an insight endpoint before any ETL run returns the
\* empty array, not an error.
C7_EmptyBeforeAnyRun ==
  [][(resp' # resp /\ NeverRan) => (resp'.status = "ok" /\ resp'.rows = <<>>)]_vars

\* C7, amended: before any ETL run no mart view exists, and a read of a view
\* that does not exist fails (no array is returned); a read of a view that
\* exists returns the empty array when dw.ratings holds no row.
C7_ErrorUntilViewExists ==
  [][/\ NeverRan => relations = {}
     /\ (resp' # resp /\ resp'.view \notin relations) => resp'.status = Error
     /\ (resp' # resp /\ resp'.view \in relations /\ dw["ratings"] = <<>>) =>
          (resp'.status = "ok" /\ resp'.rows = <<>>)]_vars

C7_Witness ==
  /\ NeverRan
  /\ resp.status = Error
  /\ resp.view \in Views

-----------------------------------------------------------------------------
(* Claims on the CRUD handlers, under SpecCrud *)

Rejected(status) ==
  /\ last'.status = status
  /\ app_movies' = app_movies
  /\ app_ratings' = app_ratings

\* The handler step answers a request that has passed no check yet.
FirstStep == last'.status # "201" /\ last'.error \notin {"22003", "23514", "23503"}

IntId(x) == x.kind = "int" /\ \A m \in app_movies : m.id # x.val

\* C6: POST /movies without a title is answered 400; POST /ratings without
\* movie_id or rating 400; POST /ratings with a movie_id that matches no row
\* 404; PUT and DELETE /movies/:id with an id that matches no row 404; and the
\* rejected request changes no row of app_movies or app_ratings.  (A field is
\* missing when JavaScript's ! holds of it: left out, "" or 0.  An id is an
\* integer.)
C6_RejectedChangesNothing ==
  [][/\ (last'.route = "POST /movies" /\ BlankText(last'.req.title)) => Rejected("400")
     /\ (/\ last'.route = "POST /ratings"
         /\ Falsy(last'.req.id) \/ last'.req.rating = Absent) => Rejected("400")
     /\ (/\ last'.route = "POST /ratings"
         /\ FirstStep
         /\ ~Falsy(last'.req.id)
         /\ last'.req.rating # Absent
         /\ IntId(last'.req.id)) => Rejected("404")
     /\ (/\ last'.route \in {"PUT /movies", "DELETE /movies"}
         /\ IntId(last'.req.id)) => Rejected("404")]_vars

\* DELETE of an id that matches no row, answered 404, with rows in both tables
C6_Witness ==
  /\ last.route = "DELETE /movies"
  /\ last.status = "404"
  /\ last.req.id = Num(1)
  /\ app_movies # {}
  /\ app_ratings # {}

\* C10: every row of app_ratings references a row of app_movies and has a
\* rating between 0 and 10, whatever the requests and their interleaving.
C10_RatingsReferenceMovies ==
  \A r \in app_ratings :
    /\ \E m \in app_movies : m.id = r.movie_id
    /\ r.rating >= 0 /\ r.rating <= 100

\* A POST /ratings has lost its movie between the lookup and the insert, and
\* the insert was refused; another movie keeps its rating.
C10_Witness ==
  /\ last.route = "POST /ratings"
  /\ last.error = "23503"
  /\ app_ratings # {}
  /\ ~HasMovie(last.req.id.val)

====
